---- MODULE Spec2Model ----
(***************************************************************************)
(* apictx: request binding, validation, JSON responses and error handling  *)
(* for net/http handlers (src/apictx.go).                                  *)
(*                                                                         *)
(* Go strings that the code inspects character by character (query         *)
(* parameter values, JSON string values, string fields of the target) are  *)
(* sequences of one-character strings; texts the code only builds and      *)
(* passes on (messages) are TLA+ strings.                                  *)
(***************************************************************************)
EXTENDS Integers, Sequences, FiniteSets, TLC

\* pc      where the program is: "idle" (no request is being served through
\*         Handler), "handling" (inside the wrapped function), "done"
\* request the request of the current Context
\* writer  the response sink of the current Context
\* err     the error variable of the caller: what Bind, BindWithoutValidation
\*         or NewHttpError last returned
\* last    the last call into the package: its arguments and its result
\* steps   the calls the wrapped function has made so far
VARIABLES pc, request, writer, err, last, steps

vars == <<pc, request, writer, err, last, steps>>

----------------------------------------------------------------------------
\* Bounds of the model.

\* Library calls a handler body makes before it returns.
MaxSteps == 2

----------------------------------------------------------------------------
\* Program constants.

StatusBadRequest == 400
StatusInternalServerError == 500
StatusOK == 200
MinStatus == 200
MaxStatus == 520
ClassifiedCode == 25600
GenericCode == 0

JSONContentType == "application/json;charset=utf-8"

----------------------------------------------------------------------------
\* Text helpers (fmt.Sprintf, strings.Join).

RECURSIVE Str(_)
Str(chars) ==
    IF chars = <<>> THEN "" ELSE Head(chars) \o Str(Tail(chars))

RECURSIVE Join(_, _)
Join(elems, sep) ==
    IF elems = <<>> THEN ""
    ELSE IF Len(elems) = 1 THEN elems[1]
    ELSE elems[1] \o sep \o Join(Tail(elems), sep)

----------------------------------------------------------------------------
\* error values.

\* The nil error interface.
NilError == [kind |-> "nil"]

\* errors.New / fmt.Errorf without %w: an error that is only a text.
PlainError(text) == [kind |-> "plain", text |-> text]

\* fmt.Errorf("...: %w", inner): an error whose Unwrap() is inner.
WrapError(text, inner) == [kind |-> "wrap", text |-> text, inner |-> inner]

\* A nil *HttpError (what Bind returns on success), also when it is stored in
\* an error interface, which is then not the nil interface.
NilHttpError == [kind |-> "nilptr"]

NewHttpErrorOffByOne(msg, cause, statsuCode) ==
    [kind |-> "http", msg |-> msg, err |-> cause,
     statusCode |-> IF Len(statsuCode) = 1 /\ statsuCode[1] >= MinStatus
                       /\ statsuCode[1] < MaxStatus
                    THEN statsuCode[1] ELSE StatusBadRequest]

NewHttpError(msg, cause, statsuCode) ==
    [kind |-> "http", msg |-> msg, err |-> cause,
     statusCode |-> IF Len(statsuCode) = 1 /\ statsuCode[1] >= MinStatus
                       /\ statsuCode[1] <= MaxStatus
                    THEN statsuCode[1] ELSE StatusBadRequest]

\* errors.As(err, &httpErr) with httpErr of type *HttpError: the first error of
\* the Unwrap chain that is a *HttpError (a nil one included). HttpError has no
\* Unwrap method, so the chain ends at it.
RECURSIVE ErrorsAs(_)
ErrorsAs(e) ==
    CASE e.kind = "http" -> [ok |-> TRUE, target |-> e]
      [] e.kind = "nilptr" -> [ok |-> TRUE, target |-> e]
      [] e.kind = "wrap" -> ErrorsAs(e.inner)
      [] OTHER -> [ok |-> FALSE, target |-> NilHttpError]

----------------------------------------------------------------------------
\* strconv.Atoi on short inputs (below the 19 characters of its fast path).

DigitChars == {"0", "1", "2", "3", "4", "5", "6", "7", "8", "9"}

DigitValue(c) ==
    CASE c = "0" -> 0 [] c = "1" -> 1 [] c = "2" -> 2 [] c = "3" -> 3
      [] c = "4" -> 4 [] c = "5" -> 5 [] c = "6" -> 6 [] c = "7" -> 7
      [] c = "8" -> 8 [] c = "9" -> 9

RECURSIVE Digits(_, _)
Digits(chars, n) ==
    IF chars = <<>> THEN n
    ELSE Digits(Tail(chars), n * 10 + DigitValue(Head(chars)))

Atoi(s) ==
    LET signed == Len(s) > 0 /\ s[1] \in {"-", "+"}
        body == IF signed THEN Tail(s) ELSE s
        syntaxError == PlainError("strconv.Atoi: parsing \"" \o Str(s)
                                  \o "\": invalid syntax")
    IN  IF Len(body) < 1 \/ \E i \in 1..Len(body) : body[i] \notin DigitChars
        THEN [value |-> 0, err |-> syntaxError]
        ELSE [value |-> IF signed /\ s[1] = "-" THEN 0 - Digits(body, 0)
                        ELSE Digits(body, 0),
              err |-> NilError]

----------------------------------------------------------------------------
\* The target value: a struct, seen through reflect as its declared fields
\* (name, the lower-case name encoding/json also matches, `query` tag, kind
\* and `validate` tag) and a value per field.

FieldDecl(name, fold, query, kind, validate) ==
    [name |-> name, fold |-> fold, query |-> query, kind |-> kind,
     validate |-> validate]

\* struct {
\*     Name   string `query:"name"  validate:"required"`
\*     Age    int    `query:"age"   validate:"gte=0"`
\*     Limit  int    `query:"limit"`
\*     Active bool   `query:"active"`
\*     Note   string `validate:"required"`
\* }
TargetType ==
    << FieldDecl("Name", "name", "name", "string", "required"),
       FieldDecl("Age", "age", "age", "int", "gte=0"),
       FieldDecl("Limit", "limit", "limit", "int", ""),
       FieldDecl("Active", "active", "active", "bool", ""),
       FieldDecl("Note", "note", "", "string", "required") >>

\* The zero value of a kind.
ZeroOf(kind) ==
    CASE kind = "string" -> <<>>
      [] kind = "int" -> 0
      [] kind = "bool" -> FALSE

ZeroValue ==
    [Name |-> <<>>, Age |-> 0, Limit |-> 0, Active |-> FALSE, Note |-> <<>>]

PresetValue ==
    [Name |-> <<"E", "v", "e">>, Age |-> 1, Limit |-> 9, Active |-> TRUE,
     Note |-> <<"n">>]

\* The values a caller passes to Bind: a fresh struct, or one already filled.
Targets == {ZeroValue, PresetValue}

----------------------------------------------------------------------------
\* Context.BindQueryParams: the loop over the fields, from field i on.

RECURSIVE BindQueryFieldsKeepGoing(_, _, _, _)
BindQueryFieldsKeepGoing(typ, data, params, i) ==
    IF i > Len(typ) THEN [data |-> data, err |-> NilError]
    ELSE
      LET field == typ[i]
          tag == field.query
      IN  IF tag # "" /\ tag \in DOMAIN params /\ Len(params[tag]) > 0
          THEN
            LET paramValue == params[tag][1]
            IN  CASE field.kind = "string" ->
                       BindQueryFieldsKeepGoing(typ,
                           [data EXCEPT ![field.name] = paramValue], params, i + 1)
                  [] field.kind = "int" ->
                       LET conv == Atoi(paramValue)
                           rest == BindQueryFieldsKeepGoing(typ, data, params, i + 1)
                       IN  IF conv.err # NilError
                           THEN [data |-> rest.data,
                                 err |-> PlainError("failed to convert parameter "
                                             \o tag \o " to int: " \o conv.err.text)]
                           ELSE BindQueryFieldsKeepGoing(typ,
                                    [data EXCEPT ![field.name] = conv.value],
                                    params, i + 1)
                  [] OTHER -> BindQueryFieldsKeepGoing(typ, data, params, i + 1)
          ELSE BindQueryFieldsKeepGoing(typ, data, params, i + 1)

RECURSIVE BindQueryFields(_, _, _, _)
BindQueryFields(typ, data, params, i) ==
    IF i > Len(typ) THEN [data |-> data, err |-> NilError]
    ELSE
      LET field == typ[i]
          tag == field.query
      IN  IF tag # "" /\ tag \in DOMAIN params /\ Len(params[tag]) > 0
          THEN
            LET paramValue == params[tag][1]
            IN  CASE field.kind = "string" ->
                       BindQueryFields(typ,
                           [data EXCEPT ![field.name] = paramValue], params, i + 1)
                  [] field.kind = "int" ->
                       LET conv == Atoi(paramValue)
                       IN  IF conv.err # NilError
                           THEN [data |-> data,
                                 err |-> PlainError("failed to convert parameter "
                                             \o tag \o " to int: " \o conv.err.text)]
                           ELSE BindQueryFields(typ,
                                    [data EXCEPT ![field.name] = conv.value],
                                    params, i + 1)
                  [] OTHER -> BindQueryFields(typ, data, params, i + 1)
          ELSE BindQueryFields(typ, data, params, i + 1)

BindQueryParams(typ, data, params) == BindQueryFields(typ, data, params, 1)

----------------------------------------------------------------------------
\* Context.BindJSONBody: json.NewDecoder(body).Decode(data) into a struct.
\* A body is nothing at all, text that is not JSON, a JSON array, or a JSON
\* object given as its members in order, each a key and a typed value.

JString(chars) == [t |-> "string", v |-> chars]
JNumber(n) == [t |-> "number", v |-> n]
JBool(b) == [t |-> "bool", v |-> b]
Member(key, val) == [key |-> key, val |-> val]

\* The Go kind a JSON value of type t decodes into.
KindFor(t) ==
    CASE t = "string" -> "string"
      [] t = "number" -> "int"
      [] t = "bool" -> "bool"

\* The index of the field a key names (its name, or its name in another
\* case), 0 when the struct has none: unknown keys are skipped.
FieldIndex(typ, key) ==
    IF \E i \in 1..Len(typ) : key \in {typ[i].name, typ[i].fold}
    THEN CHOOSE i \in 1..Len(typ) : key \in {typ[i].name, typ[i].fold}
    ELSE 0

\* Decoding goes on after a value of the wrong type; the first such error is
\* the one returned.
RECURSIVE DecodeMembers(_, _, _, _)
DecodeMembers(typ, data, members, saved) ==
    IF members = <<>> THEN [data |-> data, err |-> saved]
    ELSE
      LET m == Head(members)
          i == FieldIndex(typ, m.key)
      IN  IF i = 0 THEN DecodeMembers(typ, data, Tail(members), saved)
          ELSE IF KindFor(m.val.t) = typ[i].kind
          THEN DecodeMembers(typ, [data EXCEPT ![typ[i].name] = m.val.v],
                             Tail(members), saved)
          ELSE DecodeMembers(typ, data, Tail(members),
                   IF saved # NilError THEN saved
                   ELSE PlainError("json: cannot unmarshal " \o m.val.t
                            \o " into Go struct field ." \o typ[i].name
                            \o " of type " \o typ[i].kind))

Decode(typ, data, body) ==
    CASE body.kind = "empty" -> [data |-> data, err |-> PlainError("EOF")]
      [] body.kind = "malformed" ->
           [data |-> data,
            err |-> PlainError("invalid character 'o' in literal null (expecting 'u')")]
      [] body.kind = "array" ->
           [data |-> data,
            err |-> PlainError("json: cannot unmarshal array into Go value of type struct")]
      [] body.kind = "object" -> DecodeMembers(typ, data, body.members, NilError)

BindJSONBody(typ, data, body) ==
    LET dec == Decode(typ, data, body)
    IN  IF dec.err # NilError
        THEN [data |-> dec.data,
              err |-> PlainError("failed to decode JSON body: " \o dec.err.text)]
        ELSE [data |-> dec.data, err |-> NilError]

----------------------------------------------------------------------------
\* The request: the query multimap of its URL, the values of its Content-Type
\* header, and its body.

Request(query, contentType, body) ==
    [query |-> query, contentType |-> contentType, body |-> body]

\* http.Header.Get: the first value of the key, "" when there is none.
HeaderGet(values) == IF Len(values) > 0 THEN values[1] ELSE ""

\* Context.BindWithoutValidation. The result carries, besides the target and
\* the error, the steps that ran in order, each with the error it returned and
\* the target it left.
Ran(step, res) == [step |-> step, err |-> res.err, data |-> res.data]

BindWithoutValidationAnyJSON(req, typ, data) ==
    LET q == BindQueryParams(typ, data, req.query)
        contentType == HeaderGet(req.contentType)
        b == BindJSONBody(typ, q.data, req.body)
    IN  IF q.err # NilError
        THEN [data |-> q.data, err |-> q.err, ran |-> <<Ran("query", q)>>]
        ELSE IF contentType \in {"application/json",
                                 "application/json; charset=utf-8"}
        THEN [data |-> b.data, err |-> b.err,
              ran |-> <<Ran("query", q), Ran("body", b)>>]
        ELSE [data |-> q.data, err |-> NilError, ran |-> <<Ran("query", q)>>]

BindWithoutValidation(req, typ, data) ==
    LET q == BindQueryParams(typ, data, req.query)
        contentType == HeaderGet(req.contentType)
        b == BindJSONBody(typ, q.data, req.body)
    IN  IF q.err # NilError
        THEN [data |-> q.data, err |-> q.err, ran |-> <<Ran("query", q)>>]
        ELSE IF contentType = "application/json"
        THEN [data |-> b.data, err |-> b.err,
              ran |-> <<Ran("query", q), Ran("body", b)>>]
        ELSE [data |-> q.data, err |-> NilError, ran |-> <<Ran("query", q)>>]

\* validator.New().Struct(data): the fields whose `validate` tag fails, in
\* declaration order, one entry per field.
FieldFails(field, value) ==
    CASE field.validate = "required" -> value = ZeroOf(field.kind)
      [] field.validate = "gte=0" -> value < 0
      [] OTHER -> FALSE

RECURSIVE ValidationErrors(_, _, _)
ValidationErrors(typ, data, i) ==
    IF i > Len(typ) THEN <<>>
    ELSE (IF FieldFails(typ[i], data[typ[i].name]) THEN <<typ[i].name>> ELSE <<>>)
         \o ValidationErrors(typ, data, i + 1)

RECURSIVE ErrMsgs(_)
ErrMsgs(fields) ==
    IF fields = <<>> THEN <<>>
    ELSE <<"validation failed for " \o Head(fields)>> \o ErrMsgs(Tail(fields))

\* Context.Bind. It returns a *HttpError: nil on success.
BindValidatesFirst(req, typ, data) ==
    LET bound == BindWithoutValidation(req, typ, data)
        failed == ValidationErrors(typ, bound.data, 1)
        checked == [step |-> "validate", err |-> NilError, data |-> bound.data]
    IN  IF failed # <<>>
        THEN [data |-> bound.data,
              err |-> NewHttpError("validation error(s): "
                                   \o Join(ErrMsgs(failed), ", "),
                                   NilError, <<StatusBadRequest>>),
              ran |-> bound.ran \o <<checked>>]
        ELSE IF bound.err # NilError
        THEN [data |-> bound.data,
              err |-> NewHttpError("failed to read inputs", bound.err,
                                   <<StatusBadRequest>>),
              ran |-> bound.ran \o <<checked>>]
        ELSE [data |-> bound.data, err |-> NilHttpError,
              ran |-> bound.ran \o <<checked>>]

BindFirstOnly(req, typ, data) ==
    LET bound == BindWithoutValidation(req, typ, data)
        failed == ValidationErrors(typ, bound.data, 1)
        checked == [step |-> "validate", err |-> NilError, data |-> bound.data]
    IN  IF bound.err # NilError
        THEN [data |-> bound.data,
              err |-> NewHttpError("failed to read inputs", bound.err,
                                   <<StatusBadRequest>>),
              ran |-> bound.ran]
        ELSE IF failed # <<>>
        THEN [data |-> bound.data,
              err |-> NewHttpError("validation error(s): "
                                   \o Join(ErrMsgs(SubSeq(failed, 1, 1)), ", "),
                                   NilError, <<StatusBadRequest>>),
              ran |-> bound.ran \o <<checked>>]
        ELSE [data |-> bound.data, err |-> NilHttpError,
              ran |-> bound.ran \o <<checked>>]

Bind(req, typ, data) ==
    LET bound == BindWithoutValidation(req, typ, data)
        failed == ValidationErrors(typ, bound.data, 1)
        checked == [step |-> "validate", err |-> NilError, data |-> bound.data]
    IN  IF bound.err # NilError
        THEN [data |-> bound.data,
              err |-> NewHttpError("failed to read inputs", bound.err,
                                   <<StatusBadRequest>>),
              ran |-> bound.ran]
        ELSE IF failed # <<>>
        THEN [data |-> bound.data,
              err |-> NewHttpError("validation error(s): "
                                   \o Join(ErrMsgs(failed), ", "),
                                   NilError, <<StatusBadRequest>>),
              ran |-> bound.ran \o <<checked>>]
        ELSE [data |-> bound.data, err |-> NilHttpError,
              ran |-> bound.ran \o <<checked>>]

----------------------------------------------------------------------------
\* The response sink, as net/http implements http.ResponseWriter: the
\* Content-Type of its header map, the codes WriteHeader was called with, the
\* status the response carries (that of the first WriteHeader; 0 before), the
\* values written to the body, and whether a call panicked (WriteHeader does
\* on a code outside 100..999).

NewResponseWriter ==
    [header |-> "", calls |-> <<>>, status |-> 0, body |-> <<>>,
     panicked |-> FALSE]

HeaderSet(w, value) == [w EXCEPT !.header = value]

WriteHeader(w, code) ==
    IF code < 100 \/ code > 999
    THEN [w EXCEPT !.panicked = TRUE]
    ELSE [w EXCEPT !.calls = Append(@, code),
                   !.status = IF @ = 0 THEN code ELSE @]

Write(w, bytes) ==
    [w EXCEPT !.body = Append(@, bytes),
              !.status = IF @ = 0 THEN StatusOK ELSE @]

\* json.NewEncoder(w).Encode(data) of a caller's payload.
EncodeValue(data) == [value |-> data]

\* json.NewEncoder(w).Encode(errRes) of an ApiErrorResponse: the fields by
\* their tags, Cause (tagged "-") left out.
EncodeWithCause(errRes) ==
    [code |-> errRes.Code, message |-> errRes.Message, cause |-> errRes.Cause]

Encode(errRes) ==
    [code |-> errRes.Code, message |-> errRes.Message]

\* Context.JSON
JSON(w, code, data) ==
    LET statusCode == IF code = 0 THEN StatusOK ELSE code
        w1 == HeaderSet(w, JSONContentType)
        w2 == WriteHeader(w1, statusCode)
    IN  IF w2.panicked THEN w2 ELSE Write(w2, EncodeValue(data))

\* HandleError. The result is the writer it leaves (w) and, for the record,
\* the branch taken, the status passed to WriteHeader and the payload encoded.
\* With a nil *HttpError in the chain, httpErr.Error() dereferences nil and
\* panics before anything is written.
ApiErrorResponse(code, message, cause) ==
    [Code |-> code, Message |-> message, Cause |-> cause]

HandleErrorForce500(w, e, overRideStatusCode) ==
    LET as == ErrorsAs(e)
        statusCode == IF as.ok THEN as.target.statusCode
                      ELSE StatusInternalServerError
        errRes == IF as.ok
                  THEN ApiErrorResponse(ClassifiedCode, as.target.msg, as.target.err)
                  ELSE ApiErrorResponse(GenericCode, "Internal error", NilError)
        w1 == HeaderSet(w, JSONContentType)
        w2 == WriteHeader(w1, statusCode)
    IN  IF as.ok /\ as.target = NilHttpError
        THEN [w |-> [w EXCEPT !.panicked = TRUE], branch |-> "panic"]
        ELSE [w |-> IF w2.panicked THEN w2 ELSE Write(w2, Encode(errRes)),
              branch |-> IF as.ok THEN "classified" ELSE "generic",
              statusCode |-> statusCode, payload |-> Encode(errRes)]

HandleErrorOverrideWins(w, e, overRideStatusCode) ==
    LET as == ErrorsAs(e)
        statusCode == IF Len(overRideStatusCode) = 1 THEN overRideStatusCode[1]
                      ELSE IF as.ok THEN as.target.statusCode
                      ELSE StatusInternalServerError
        errRes == IF as.ok
                  THEN ApiErrorResponse(ClassifiedCode, as.target.msg, as.target.err)
                  ELSE ApiErrorResponse(GenericCode, "Internal error", NilError)
        w1 == HeaderSet(w, JSONContentType)
        w2 == WriteHeader(w1, statusCode)
    IN  IF as.ok /\ as.target = NilHttpError
        THEN [w |-> [w EXCEPT !.panicked = TRUE], branch |-> "panic"]
        ELSE [w |-> IF w2.panicked THEN w2 ELSE Write(w2, Encode(errRes)),
              branch |-> IF as.ok THEN "classified" ELSE "generic",
              statusCode |-> statusCode, payload |-> Encode(errRes)]

HandleError(w, e, overRideStatusCode) ==
    LET as == ErrorsAs(e)
        statusCode == IF as.ok THEN as.target.statusCode
                      ELSE IF Len(overRideStatusCode) = 1 THEN overRideStatusCode[1]
                      ELSE StatusInternalServerError
        errRes == IF as.ok
                  THEN ApiErrorResponse(ClassifiedCode, as.target.msg, as.target.err)
                  ELSE ApiErrorResponse(GenericCode, "Internal error", NilError)
        w1 == HeaderSet(w, JSONContentType)
        w2 == WriteHeader(w1, statusCode)
    IN  IF as.ok /\ as.target = NilHttpError
        THEN [w |-> [w EXCEPT !.panicked = TRUE], branch |-> "panic"]
        ELSE [w |-> IF w2.panicked THEN w2 ELSE Write(w2, Encode(errRes)),
              branch |-> IF as.ok THEN "classified" ELSE "generic",
              statusCode |-> statusCode, payload |-> Encode(errRes)]

\* One call of HandleError as the history keeps it: who called, the
\* arguments, the writer before, and the result.
HandleErrorCall(by, w, e, overRideStatusCode) ==
    [op |-> "HandleError", by |-> by, err |-> e,
     overRideStatusCode |-> overRideStatusCode, before |-> w,
     result |-> HandleError(w, e, overRideStatusCode)]

\* The closure Handler returns, from the point where the wrapped function has
\* returned e: the writer it leaves and the HandleError calls it made.
HandlerAlwaysHandles(w, e) ==
    [w |-> HandleError(w, e, <<>>).w,
     calls |-> <<HandleErrorCall("adapter", w, e, <<>>)>>]

Handler(w, e) ==
    IF e # NilError
    THEN [w |-> HandleError(w, e, <<>>).w,
          calls |-> <<HandleErrorCall("adapter", w, e, <<>>)>>]
    ELSE [w |-> w, calls |-> <<>>]

----------------------------------------------------------------------------
\* Inputs.

\* Multimaps of query parameters: per key, no entry or a list of values.
Opt(lists) == {<<>>} \cup {<<l>> : l \in lists}

Params(n, a, l, v) ==
    LET all == [name |-> n, age |-> a, limit |-> l, active |-> v]
    IN  [k \in {t \in DOMAIN all : all[t] # <<>>} |-> all[k][1]]

NameLists == { << <<"B", "o", "b">> >> }
AgeLists ==
    { << <<"4", "2">> >>, << <<"a", "b", "c">> >>, << <<"-", "5">> >>,
      << <<"+", "7">> >>, << <<>> >>, << <<"4", "2">>, <<"a", "b", "c">> >> }
LimitLists == { << <<"7">> >>, << <<"x">> >> }
ActiveLists == { << <<"t", "r", "u", "e">> >> }

\* What url.Values holds after URL.Query(): every key has a value.
Queries ==
    { Params(n, a, l, v) : n \in Opt(NameLists), a \in Opt(AgeLists),
                           l \in Opt(LimitLists), v \in Opt(ActiveLists) }

\* What a caller can hand to BindQueryParams: also a key with no value.
ParamMaps ==
    Queries \cup { Params(<<>>, << <<>> >>, l, <<>>) : l \in Opt(LimitLists) }

ContentTypes ==
    { <<>>, <<"application/json">>, <<"application/json; charset=utf-8">>,
      <<"text/plain">>, <<"text/plain", "application/json">> }

Object(members) == [kind |-> "object", members |-> members]

Bodies ==
    { [kind |-> "empty"], [kind |-> "malformed"], [kind |-> "array"],
      Object(<<>>),
      Object(<<Member("name", JString(<<"A", "l">>))>>),
      Object(<<Member("age", JString(<<"o", "l", "d">>)),
               Member("Note", JString(<<"h", "i">>))>>),
      Object(<<Member("age", JNumber(30)), Member("note", JString(<<"h", "i">>)),
               Member("extra", JBool(TRUE))>>) }

Requests ==
    { Request(q, ct, b) : q \in Queries, ct \in ContentTypes, b \in Bodies }

\* The requests served through Handler in this model: one that binds and
\* validates, one whose query fails to convert, one whose body fails to
\* decode, one that fails validation.
HandlerRequests ==
    { Request(Params(<< << <<"B", "o", "b">> >> >>, << << <<"4", "2">> >> >>,
                     <<>>, <<>>),
              <<"application/json">>,
              Object(<<Member("note", JString(<<"h", "i">>))>>)),
      Request(Params(<<>>, << << <<"a", "b", "c">> >> >>, <<>>, <<>>), <<>>,
              [kind |-> "empty"]),
      Request(Params(<<>>, <<>>, <<>>, <<>>), <<"application/json">>,
              [kind |-> "malformed"]),
      Request(Params(<<>>, << << <<"-", "5">> >> >>, <<>>, <<>>), <<>>,
              [kind |-> "empty"]) }

NoRequest == Request(Params(<<>>, <<>>, <<>>, <<>>), <<>>, [kind |-> "empty"])

Messages == {"not found", "bad input"}
Causes == {NilError, PlainError("db down")}
StatusArgs ==
    { <<>>, <<404>>, <<200>>, <<520>>, <<199>>, <<521>>, <<999>>, <<404, 500>> }
Overrides == { <<>>, <<404>>, <<42>>, <<503, 404>> }
Codes == {0, 201, 99}
Payloads == {"v"}

\* The errors a handler body can hand on, given its err variable: nil, an
\* error of its own, or err, each as it is or wrapped with %w.
Returnable(e) ==
    {NilError, PlainError("boom"), WrapError("lookup", PlainError("boom"))}
    \cup (IF e = NilError THEN {} ELSE {e, WrapError("handler", e)})

----------------------------------------------------------------------------
\* The state machine. Outside Handler a caller builds a Context with
\* NewContext and calls one method on it; through Handler the wrapped function
\* makes up to MaxSteps calls and returns, and the closure finishes.
\* pc is "done" after either, until the next request.

Init ==
    /\ pc = "idle"
    /\ request = NoRequest
    /\ writer = NewResponseWriter
    /\ err = NilError
    /\ last = [op |-> "none"]
    /\ steps = 0

\* ctx := NewContext(w, r, nil); err := ctx.Bind(&data)
CallBind(req, data) ==
    /\ pc = "idle"
    /\ pc' = "done"
    /\ request' = req
    /\ writer' = NewResponseWriter
    /\ steps' = 0
    /\ last' = [op |-> "Bind", req |-> req, data |-> data,
                result |-> Bind(req, TargetType, data)]
    /\ err' = Bind(req, TargetType, data).err

\* ctx := NewContext(w, r, nil); err := ctx.BindWithoutValidation(&data)
CallBindWithoutValidation(req, data) ==
    /\ pc = "idle"
    /\ pc' = "done"
    /\ request' = req
    /\ writer' = NewResponseWriter
    /\ steps' = 0
    /\ last' = [op |-> "BindWithoutValidation", req |-> req, data |-> data,
                result |-> BindWithoutValidation(req, TargetType, data)]
    /\ err' = BindWithoutValidation(req, TargetType, data).err

\* err := ctx.BindQueryParams(&data, params)
CallBindQueryParams(params, data) ==
    /\ pc = "idle"
    /\ pc' = "done"
    /\ request' = NoRequest
    /\ writer' = NewResponseWriter
    /\ steps' = 0
    /\ last' = [op |-> "BindQueryParams", params |-> params, data |-> data,
                result |-> BindQueryParams(TargetType, data, params)]
    /\ err' = BindQueryParams(TargetType, data, params).err

\* err := ctx.BindJSONBody(&data, body)
CallBindJSONBody(body, data) ==
    /\ pc = "idle"
    /\ pc' = "done"
    /\ request' = NoRequest
    /\ writer' = NewResponseWriter
    /\ steps' = 0
    /\ last' = [op |-> "BindJSONBody", body |-> body, data |-> data,
                result |-> BindJSONBody(TargetType, data, body)]
    /\ err' = BindJSONBody(TargetType, data, body).err

\* The server calls the closure Handler returned: it builds the Context and
\* enters the wrapped function.
Serve(req) ==
    /\ pc = "idle"
    /\ pc' = "handling"
    /\ request' = req
    /\ writer' = NewResponseWriter
    /\ err' = NilError
    /\ last' = [op |-> "Serve"]
    /\ steps' = 0

\* In the wrapped function: err := ctx.Bind(&data)
HandlerBind(data) ==
    /\ pc = "handling" /\ steps < MaxSteps
    /\ steps' = steps + 1
    /\ last' = [op |-> "Bind", req |-> request, data |-> data,
                result |-> Bind(request, TargetType, data)]
    /\ err' = Bind(request, TargetType, data).err
    /\ UNCHANGED <<pc, request, writer>>

\* In the wrapped function: err := NewHttpError(msg, cause, statsuCode...)
HandlerNewHttpError(msg, cause, statsuCode) ==
    /\ pc = "handling" /\ steps < MaxSteps
    /\ steps' = steps + 1
    /\ last' = [op |-> "NewHttpError", msg |-> msg, cause |-> cause,
                statsuCode |-> statsuCode,
                result |-> NewHttpError(msg, cause, statsuCode)]
    /\ err' = NewHttpError(msg, cause, statsuCode)
    /\ UNCHANGED <<pc, request, writer>>

\* In the wrapped function: ctx.JSON(code, data). A panic in WriteHeader ends
\* the wrapped function: the closure never sees it return.
HandlerJSON(code, data) ==
    /\ pc = "handling" /\ steps < MaxSteps
    /\ steps' = steps + 1
    /\ writer' = JSON(writer, code, data)
    /\ last' = [op |-> "JSON", code |-> code, data |-> data, before |-> writer]
    /\ pc' = IF JSON(writer, code, data).panicked THEN "done" ELSE "handling"
    /\ UNCHANGED <<request, err>>

\* In the wrapped function: HandleError(ctx.Writer(), ctx.Request(), e, ov...)
HandlerHandleError(e, overRideStatusCode) ==
    /\ pc = "handling" /\ steps < MaxSteps
    /\ steps' = steps + 1
    /\ writer' = HandleError(writer, e, overRideStatusCode).w
    /\ last' = HandleErrorCall("handler", writer, e, overRideStatusCode)
    /\ pc' = IF HandleError(writer, e, overRideStatusCode).w.panicked
             THEN "done" ELSE "handling"
    /\ UNCHANGED <<request, err>>

\* The wrapped function returns e and the closure finishes.
HandlerReturn(e) ==
    /\ pc = "handling"
    /\ pc' = "done"
    /\ writer' = Handler(writer, e).w
    /\ last' = [op |-> "Handler", err |-> e, before |-> writer,
                calls |-> Handler(writer, e).calls]
    /\ UNCHANGED <<request, err, steps>>

\* The request is over: its Context, target and errors are dropped.
Finish ==
    /\ pc = "done"
    /\ pc' = "idle"
    /\ request' = NoRequest
    /\ writer' = NewResponseWriter
    /\ err' = NilError
    /\ last' = [op |-> "none"]
    /\ steps' = 0

Next ==
    \/ \E req \in Requests, data \in Targets : CallBind(req, data)
    \/ \E req \in Requests, data \in Targets : CallBindWithoutValidation(req, data)
    \/ \E params \in ParamMaps, data \in Targets : CallBindQueryParams(params, data)
    \/ \E body \in Bodies, data \in Targets : CallBindJSONBody(body, data)
    \/ \E req \in HandlerRequests : Serve(req)
    \/ \E data \in Targets : HandlerBind(data)
    \/ \E msg \in Messages, cause \in Causes, statsuCode \in StatusArgs :
          HandlerNewHttpError(msg, cause, statsuCode)
    \/ \E code \in Codes, data \in Payloads : HandlerJSON(code, data)
    \/ \E e \in Returnable(err) \ {NilError}, ov \in Overrides :
          HandlerHandleError(e, ov)
    \/ \E e \in Returnable(err) : HandlerReturn(e)
    \/ Finish

Spec == Init /\ [][Next]_vars

----------------------------------------------------------------------------
\* What the properties below speak of.

\* The HandleError calls the last step made: the wrapped function's own call,
\* or the calls of the closure after the wrapped function returned.
HandleErrorCalls ==
    IF last.op = "HandleError" THEN <<last>>
    ELSE IF last.op = "Handler" THEN last.calls
    ELSE <<>>

\* The errors of e's Unwrap chain, outermost first.
RECURSIVE Chain(_)
Chain(e) == IF e.kind = "wrap" THEN <<e>> \o Chain(e.inner) ELSE <<e>>

\* e is, or wraps, a *HttpError that NewHttpError built.
IsTyped(e) == \E i \in 1..Len(Chain(e)) : Chain(e)[i].kind = "http"

\* That *HttpError: the outermost one of the chain.
TypedOf(e) ==
    Chain(e)[CHOOSE i \in 1..Len(Chain(e)) :
                /\ Chain(e)[i].kind = "http"
                /\ \A j \in 1..(i - 1) : Chain(e)[j].kind # "http"]

\* e is not nil and no error of its chain is a *HttpError, nil or not.
IsUnclassified(e) ==
    \A i \in 1..Len(Chain(e)) : Chain(e)[i].kind \in {"plain", "wrap"}

\* What a call that passed status to WriteHeader and encoded payload left of
\* the writer w: net/http rejects a status outside 100..999 with a panic.
Written(w, status, payload) ==
    IF status < 100 \/ status > 999
    THEN [w EXCEPT !.header = "application/json;charset=utf-8",
                   !.panicked = TRUE]
    ELSE [w EXCEPT !.header = "application/json;charset=utf-8",
                   !.calls = Append(@, status),
                   !.status = IF @ = 0 THEN status ELSE @,
                   !.body = Append(@, payload)]

----------------------------------------------------------------------------
C2_ClassifiedStatusAndPayload ==
    /\ ClassifiedCode # 0 /\ ClassifiedCode # GenericCode
    /\ \A i \in 1..Len(HandleErrorCalls) :
        LET c == HandleErrorCalls[i]
            h == TypedOf(c.err)
            payload == [code |-> 25600, message |-> h.msg]
        IN  /\ IsTyped(c.err) =>
                /\ c.result.branch = "classified"
                /\ c.result.statusCode = h.statusCode
                /\ c.result.payload = payload
                /\ c.result.w = Written(c.before, h.statusCode, payload)
                /\ ~c.result.w.panicked
            /\ IsUnclassified(c.err) => c.result.branch = "generic"
            /\ c.result.branch = "generic" => c.result.payload.code # 25600

\* A wrapped *HttpError of status 520 handled with the override 404: the
\* response carries 520 and the error's message.
C2_Witness ==
    /\ last.op = "HandleError"
    /\ last.err.kind = "wrap"
    /\ IsTyped(last.err)
    /\ last.overRideStatusCode = <<404>>
    /\ last.before.calls = <<>>
    /\ writer.status = 520
    /\ writer.body = <<[code |-> 25600, message |-> "not found"]>>

\* C3: NewHttpError gives the supplied status when one is supplied and lies in
\* 200..520, and 400 when none is supplied or the supplied one lies outside;
\* every *HttpError built by it (Bind's included) has a status in 200..520.
C3_StatusInRange ==
    /\ last.op = "NewHttpError" =>
        LET given == last.statsuCode
            r == last.result
        IN  /\ r.kind = "http" /\ r.msg = last.msg /\ r.err = last.cause
            /\ r = err
            /\ (Len(given) = 1 /\ given[1] >= 200 /\ given[1] <= 520)
                  => r.statusCode = given[1]
            /\ Len(given) = 0 => r.statusCode = 400
            /\ (Len(given) = 1 /\ (given[1] < 200 \/ given[1] > 520))
                  => r.statusCode = 400
    /\ err.kind = "http" => err.statusCode \in 200..520
    /\ \A i \in 1..Len(HandleErrorCalls) :
          IsTyped(HandleErrorCalls[i].err)
             => TypedOf(HandleErrorCalls[i].err).statusCode \in 200..520

\* NewHttpError("not found", cause, 999) has fallen back to 400.
C3_Witness ==
    /\ last.op = "NewHttpError"
    /\ last.statsuCode = <<999>>
    /\ last.cause # NilError
    /\ err.statusCode = 400

Range(seq) == {seq[i] : i \in 1..Len(seq)}

\* The names of the steps a Bind or BindWithoutValidation call ran, in order.
StepsRan(r) == [i \in 1..Len(r.ran) |-> r.ran[i].step]

\* The first value of the Content-Type header is "application/json".
IsJSONRequest(req) ==
    req.contentType # <<>> /\ req.contentType[1] = "application/json"

\* C4: Bind runs query coercion, then body decoding, then validation; body
\* decoding only after coercion succeeded, validation only after both did.
\* When coercion or decoding fails Bind returns a *HttpError of status 400 and
\* message "failed to read inputs" whose cause is the failing step's error,
\* and validation is not run.
C4_BindOrder ==
    last.op = "Bind" =>
        LET r == last.result
            ran == r.ran
            names == StepsRan(r)
        IN  /\ names \in { <<"query">>, <<"query", "body">>,
                           <<"query", "validate">>,
                           <<"query", "body", "validate">> }
            /\ \A i \in 2..Len(ran) : \A j \in 1..(i - 1) : ran[j].err = NilError
            /\ \A i \in 1..Len(ran) :
                  ran[i].err # NilError =>
                     /\ i = Len(ran)
                     /\ ran[i].step # "validate"
                     /\ r.err = [kind |-> "http", msg |-> "failed to read inputs",
                                 err |-> ran[i].err, statusCode |-> 400]
            /\ (\A i \in 1..Len(ran) : ran[i].err = NilError)
                  => names[Len(names)] = "validate"
            /\ (r.err.kind = "http" /\ r.err.msg = "failed to read inputs")
                  => \E i \in 1..Len(ran) : ran[i].err # NilError

\* A Bind whose coercion succeeded and whose body failed to decode: it
\* stopped there, with the decoding error as the cause.
C4_Witness ==
    /\ last.op = "Bind"
    /\ StepsRan(last.result) = <<"query", "body">>
    /\ last.result.ran[2].err # NilError
    /\ last.req.query # <<>>
    /\ err.msg = "failed to read inputs"
    /\ err.err = last.result.ran[2].err

\* The diagnostics of the fields of a TargetType value that fail their
\* constraints, in declaration order.
Diagnostics(data) ==
    (IF data.Name = <<>> THEN <<"validation failed for Name">> ELSE <<>>)
    \o (IF data.Age < 0 THEN <<"validation failed for Age">> ELSE <<>>)
    \o (IF data.Note = <<>> THEN <<"validation failed for Note">> ELSE <<>>)

\* C5 as stated: when coercion and decoding succeed and constraints fail, Bind
\* returns a *HttpError of status 400, no cause, and a message that is the
\* diagnostics "validation failed for <field>" joined with ", ".
C5_MessageIsJoinedDiagnostics ==
    (last.op = "Bind" /\ "validate" \in Range(StepsRan(last.result))
       /\ Diagnostics(last.result.data) # <<>>)
    => last.result.err = [kind |-> "http",
                          msg |-> Join(Diagnostics(last.result.data), ", "),
                          err |-> NilError, statusCode |-> 400]

\* C5 as amended: the message is "validation error(s): " followed by the
\* diagnostics joined with ", "; and Bind returns nil when no constraint fails.
C5_MessageIsPrefixedDiagnostics ==
    (last.op = "Bind" /\ "validate" \in Range(StepsRan(last.result)))
    => IF Diagnostics(last.result.data) # <<>>
       THEN last.result.err =
               [kind |-> "http",
                msg |-> "validation error(s): "
                        \o Join(Diagnostics(last.result.data), ", "),
                err |-> NilError, statusCode |-> 400]
       ELSE last.result.err = NilHttpError

\* A Bind that found two offending fields.
C5_Witness ==
    /\ last.op = "Bind"
    /\ err.kind = "http"
    /\ err.err = NilError
    /\ err.msg = "validation error(s): validation failed for Name, validation failed for Note"

\* The errors that differ from e only in what must not reach the client: for
\* a *HttpError (wrapped or not) its cause, for an unclassified error its text.
Secrets == {NilError, PlainError("db down"), PlainError("dial tcp 10.0.0.7:5432")}

SameToClient(e) ==
    IF IsTyped(e)
    THEN LET twins == { [kind |-> "http", msg |-> TypedOf(e).msg, err |-> c,
                         statusCode |-> TypedOf(e).statusCode] : c \in Secrets }
         IN  twins \cup { WrapError("handler", t) : t \in twins }
    ELSE IF IsUnclassified(e)
    THEN LET twins == Secrets \ {NilError}
         IN  twins \cup { WrapError("lookup", t) : t \in twins }
    ELSE {}

\* C6: what HandleError writes does not depend on a *HttpError's cause nor on
\* the text of an unclassified error: with the same writer and override, every
\* error that differs only in those leaves the same status and body, and the
\* payload has the two fields code and message and no other.
C6_CauseNeverWritten ==
    \A i \in 1..Len(HandleErrorCalls) :
        LET c == HandleErrorCalls[i]
        IN  c.result.branch # "panic" =>
              /\ DOMAIN c.result.payload = {"code", "message"}
              /\ ~c.result.w.panicked =>
                    /\ c.result.w.body = Append(c.before.body, c.result.payload)
                    /\ \A k \in 1..Len(c.result.w.body) :
                          "cause" \notin DOMAIN c.result.w.body[k]
              /\ \A twin \in SameToClient(c.err) :
                    HandleError(c.before, twin, c.overRideStatusCode).w = c.result.w

\* A *HttpError with a cause was handled and the response holds its code and
\* message only.
C6_Witness ==
    /\ last.op = "Handler"
    /\ IsTyped(last.err)
    /\ TypedOf(last.err).err = PlainError("db down")
    /\ writer.body = <<[code |-> 25600, message |-> "bad input"]>>

\* C7: when the wrapped function returns nil the closure leaves the response
\* as the wrapped function left it; when it returns a non-nil error the
\* closure calls HandleError once, with that error and no override.
C7_AdapterHandlesOnce ==
    last.op = "Handler" =>
        IF last.err = NilError
        THEN /\ last.calls = <<>>
             /\ writer = last.before
        ELSE /\ Len(last.calls) = 1
             /\ last.calls[1].by = "adapter"
             /\ last.calls[1].err = last.err
             /\ last.calls[1].overRideStatusCode = <<>>
             /\ last.calls[1].before = last.before
             /\ writer = last.calls[1].result.w

\* The wrapped function wrote a response with JSON and returned nil: the
\* response is the one it wrote.
C7_Witness ==
    /\ last.op = "Handler"
    /\ last.err = NilError
    /\ writer.calls = <<201>>
    /\ writer.body = <<[value |-> "v"]>>

\* C8 as stated: BindWithoutValidation decodes the body if and only if the
\* Content-Type header is exactly "application/json".
C8_DecodesIffJSON ==
    last.op = "BindWithoutValidation" =>
        ("body" \in Range(StepsRan(last.result)) <=> IsJSONRequest(last.req))

\* C8 as amended: when query coercion succeeded, BindWithoutValidation decodes
\* the body into the target if and only if the Content-Type header is exactly
\* "application/json"; for every other value, and when coercion failed, the
\* body is not read, the target is as coercion left it and no error comes from
\* the body.
C8_DecodesIffJSONAfterCoercion ==
    last.op = "BindWithoutValidation" =>
        LET r == last.result
            q == r.ran[1]
            decoded == "body" \in Range(StepsRan(r))
        IN  /\ q.step = "query"
            /\ q.err = NilError => (decoded <=> IsJSONRequest(last.req))
            /\ q.err # NilError => ~decoded
            /\ ~decoded => /\ r.data = q.data
                           /\ r.err = q.err
                           /\ last.req.query = <<>> =>
                                 (r.data = last.data /\ r.err = NilError)
            /\ decoded => /\ r.err = r.ran[2].err
                          /\ r.data = r.ran[2].data
                          /\ last.req.body.kind = "empty" => r.err # NilError
                          /\ last.req.body = Object(<<Member("name",
                                                 JString(<<"A", "l">>))>>)
                                => (r.data.Name = <<"A", "l">> /\ r.err = NilError)

\* A body that would set Name, sent as "application/json; charset=utf-8": it
\* was not read.
C8_Witness ==
    /\ last.op = "BindWithoutValidation"
    /\ last.req.contentType = <<"application/json; charset=utf-8">>
    /\ last.req.body = Object(<<Member("name", JString(<<"A", "l">>))>>)
    /\ last.req.query = <<>>
    /\ last.data = ZeroValue
    /\ last.result.data = ZeroValue
    /\ err = NilError

\* The text of a parameter value is that of an integer in base 10.
IsIntText(s) ==
    LET body == IF s # <<>> /\ s[1] \in {"+", "-"} THEN Tail(s) ELSE s
    IN  /\ body # <<>>
        /\ \A i \in 1..Len(body) :
              body[i] \in {"0", "1", "2", "3", "4", "5", "6", "7", "8", "9"}

\* The integers of the parameter values of this model.
IntOf(s) ==
    CASE s = <<"4", "2">> -> 42
      [] s = <<"-", "5">> -> 0 - 5
      [] s = <<"+", "7">> -> 7
      [] s = <<"7">> -> 7

\* The parameter of field i is present with at least one value.
IsPresent(params, i) ==
    /\ TargetType[i].query # ""
    /\ TargetType[i].query \in DOMAIN params
    /\ params[TargetType[i].query] # <<>>

FirstValue(params, i) == params[TargetType[i].query][1]

IsBad(params, i) ==
    /\ TargetType[i].kind = "int"
    /\ IsPresent(params, i)
    /\ ~IsIntText(FirstValue(params, i))

\* C9: BindQueryParams visits the annotated fields in declaration order and
\* stops at the first one whose present value is not an integer: it returns an
\* error naming that parameter, the fields before it are bound, that field and
\* every field after it are unchanged, and a field whose parameter is absent
\* is never changed.
C9_CoercionStopsAtFirstFailure ==
    last.op = "BindQueryParams" =>
        LET params == last.params
            before == last.data
            after == last.result.data
            n == Len(TargetType)
            bad == {i \in 1..n : IsBad(params, i)}
            stop == IF bad = {} THEN n + 1
                    ELSE CHOOSE i \in bad : \A j \in bad : i <= j
        IN  /\ bad = {} <=> last.result.err = NilError
            /\ bad # {} =>
                  last.result.err =
                     PlainError("failed to convert parameter "
                        \o TargetType[stop].query
                        \o " to int: strconv.Atoi: parsing \""
                        \o Str(FirstValue(params, stop)) \o "\": invalid syntax")
            /\ \A i \in 1..n :
                  LET name == TargetType[i].name
                  IN  /\ i >= stop => after[name] = before[name]
                      /\ ~IsPresent(params, i) => after[name] = before[name]
                      /\ (i < stop /\ IsPresent(params, i)) =>
                            CASE TargetType[i].kind = "string" ->
                                   after[name] = FirstValue(params, i)
                              [] TargetType[i].kind = "int" ->
                                   after[name] = IntOf(FirstValue(params, i))
                              [] OTHER -> after[name] = before[name]

\* name=Bob&age=abc&limit=7 on an empty target: Name is bound, the error names
\* age, and Limit, whose parameter is present, is not bound.
C9_Witness ==
    /\ last.op = "BindQueryParams"
    /\ DOMAIN last.params = {"name", "age", "limit"}
    /\ last.params.age = << <<"a", "b", "c">> >>
    /\ last.params.limit = << <<"7">> >>
    /\ last.data = ZeroValue
    /\ last.result.data = [ZeroValue EXCEPT !.Name = <<"B", "o", "b">>]
    /\ err = PlainError("failed to convert parameter age to int: strconv.Atoi: parsing \"abc\": invalid syntax")

\* C10: during a request served through Handler, WriteHeader is called at most
\* once; stated for a wrapped function that itself calls it at most once
\* (by one JSON or HandleError call) before it returns.
C10_WriteHeaderAtMostOnce ==
    (last.op = "Handler" /\ Len(last.before.calls) <= 1)
       => Len(writer.calls) <= 1

====
